---- MODULE Spec2Model ----
(***************************************************************************)
(* Score combination (combo/models/score_comb.py): aom, moa, average,      *)
(* maximization, median and majority_vote over a score matrix.             *)
(*                                                                         *)
(* Scores are small integers and every mean is kept as an exact fraction   *)
(* [num, den]; floating-point rounding of numpy is not modelled.           *)
(* Column indices are 0-based as in the source; TLA+ sequences are 1-based,*)
(* so column j of a row is row[j + 1].                                     *)
(***************************************************************************)
EXTENDS Integers, Sequences, FiniteSets

VARIABLES
    scores,                \* the score matrix: a sequence of rows
    weights,               \* the weights argument: None or a (1, k) array
    n_buckets,             \* argument of aom / moa
    method,                \* argument of aom / moa
    bootstrap_estimators,  \* argument of aom / moa
    random_state,          \* argument of aom / moa: None, an int seed, a RandomState
    np_random,             \* state of the process-wide generator of np.random
    rs_instance,           \* state of the caller's RandomState instance
    last,                  \* what the latest call did: buckets, result, error
    prev                   \* what the aom / moa call before the latest one did

vars == <<scores, weights, n_buckets, method, bootstrap_estimators,
          random_state, np_random, rs_instance, last, prev>>

----------------------------------------------------------------------------
(* Bounds *)

MaxEst == 6
MaxVoters == 3
GenMod == 6
NumSeeds == 2

ScoreVals == {0, 1}
Labels == {0, 1}
WeightVals == {0, 1, 2}
SampleCounts == {1, 2}

GenStates == 0 .. (GenMod - 1)
Seeds == 0 .. (NumSeeds - 1)

----------------------------------------------------------------------------
(* Exact fractions *)

Frac(n, d) == [num |-> n, den |-> d]
FracLeq(a, b) == a.num * b.den <= b.num * a.den
FracEq(a, b) == a.num * b.den = b.num * a.den

RECURSIVE SumSeq(_)
SumSeq(s) == IF s = <<>> THEN 0 ELSE Head(s) + SumSeq(Tail(s))

RECURSIVE MaxSeq(_)
MaxSeq(s) ==
    IF Len(s) = 1 THEN s[1]
    ELSE LET m == MaxSeq(Tail(s)) IN IF Head(s) >= m THEN Head(s) ELSE m

RECURSIVE MinSeq(_)
MinSeq(s) ==
    IF Len(s) = 1 THEN s[1]
    ELSE LET m == MinSeq(Tail(s)) IN IF Head(s) <= m THEN Head(s) ELSE m

RECURSIVE MaxFrac(_)
MaxFrac(s) ==
    IF Len(s) = 1 THEN s[1]
    ELSE LET m == MaxFrac(Tail(s)) IN IF FracLeq(m, Head(s)) THEN Head(s) ELSE m

RemoveAt(s, p) == SubSeq(s, 1, p - 1) \o SubSeq(s, p + 1, Len(s))

Range(s) == {s[k] : k \in 1 .. Len(s)}

\* scores[:, ind] restricted to one row: the row's entries at the columns ind
Columns(row, ind) == [k \in 1 .. Len(ind) |-> row[ind[k] + 1]]

----------------------------------------------------------------------------
(* Random sources *)

None == [kind |-> "None", seed |-> 0]
IntSeed(s) == [kind |-> "int", seed |-> s]
Instance == [kind |-> "RandomState", seed |-> 0]

\* RandomState(seed): the generator state an integer seed fixes
SeedState(seed) == (2 * seed + 1) % GenMod

\* every draw moves the generator to its next state
Advance(g) == (g + 1) % GenMod

\* Variant: an int seed offsets the process-wide generator instead of
\* building a new one.
check_random_state_shared(rs, gens) ==
    IF rs.kind = "RandomState"
    THEN [state |-> gens.inst, after |-> [gens EXCEPT !.inst = Advance(@)]]
    ELSE [state |-> (gens.np + rs.seed) % GenMod,
          after |-> [gens EXCEPT !.np = Advance(@)]]

\* sklearn check_random_state, the generator each sklearn draw goes through:
\* None is the process-wide generator, an int a NEW generator seeded with it,
\* a RandomState instance the instance itself. gens holds the two generators
\* that outlive a draw; [state] is the state the draw reads, [after] is gens
\* once the draw has advanced its generator.
check_random_state(rs, gens) ==
    CASE rs.kind = "None" ->
           [state |-> gens.np, after |-> [gens EXCEPT !.np = Advance(@)]]
      [] rs.kind = "int" ->
           [state |-> SeedState(rs.seed), after |-> gens]
      [] rs.kind = "RandomState" ->
           [state |-> gens.inst, after |-> [gens EXCEPT !.inst = Advance(@)]]

\* The permutation a generator in state g produces for a list: g read as a
\* mixed-radix number whose digits pick the next item among those left.
RECURSIVE Permute(_, _)
Permute(g, items) ==
    IF items = <<>> THEN <<>>
    ELSE LET k == Len(items)
             p == (g % k) + 1
         IN  <<items[p]>> \o Permute(g \div k, RemoveAt(items, p))

\* sklearn.utils.shuffle(list(range(0, n, 1)), random_state=...)
shuffle(n, g) == Permute(g, [k \in 1 .. n |-> k - 1])

\* Variant: the draw may repeat an index.
sample_with_replacement(n_population, n_samples, g) ==
    [k \in 1 .. n_samples |-> (g + ((k - 1) \div 2)) % n_population]

\* sample_without_replacement(n_population, n_samples, random_state=...):
\* n_samples distinct integers of 0 .. n_population - 1
sample_without_replacement(n_population, n_samples, g) ==
    SubSeq(Permute(g, [k \in 1 .. n_population |-> k - 1]), 1, n_samples)

\* RandomState.randint(low, high) for low < high: an integer of low .. high - 1
randint(g, low, high) == low + (g % (high - low))

----------------------------------------------------------------------------
(* _aom_moa_helper *)

NoError == "None"
ParameterRangeError == "ValueError: n_buckets not in the range"
UnevenBucketError == "ValueError: n_estimators / n_buckets has a remainder"
UnsupportedStrategyError == "NotImplementedError"
RandintRangeError == "ValueError: low >= high"
SeedTypeError == "TypeError: RandomState(seed=RandomState)"
ShapeMismatchError == "shape mismatch"
BroadcastError == "ValueError: operands could not be broadcast together"

\* Variant: both ends of the range excluded.
check_parameter_exclusive(param, low, high) ==
    low > high \/ param <= low \/ param >= high

\* pyod check_parameter(param, low, high, include_left=True,
\* include_right=True): TRUE when it raises
check_parameter(param, low, high) ==
    low > high \/ param < low \/ param > high

\* Variant: the operands of % swapped.
has_remainder_swapped(n_estimators, nb) == nb % n_estimators # 0

\* n_estimators % n_buckets != 0
has_remainder(n_estimators, nb) == n_estimators % nb # 0

\* Variant: a slice starts one item early.
RECURSIVE static_loop_overlapping(_, _, _, _, _)
static_loop_overlapping(i, head, n_estimators, per, shuffled_list) ==
    IF i >= n_estimators THEN <<>>
    ELSE <<SubSeq(shuffled_list, IF head = 0 THEN 1 ELSE head, i + per)>>
         \o static_loop_overlapping(i + per, head + per, n_estimators, per,
                                    shuffled_list)

\* the loop of the static, non-bootstrap branch: slices of the shuffled list
RECURSIVE static_loop(_, _, _, _, _)
static_loop(i, head, n_estimators, per, shuffled_list) ==
    IF i >= n_estimators THEN <<>>
    ELSE LET tail == i + per
         IN  <<SubSeq(shuffled_list, head + 1, tail)>>
             \o static_loop(i + per, head + per, n_estimators, per,
                            shuffled_list)

\* Variant: the seeded generator is built once, before the loop, and
\* advances from bucket to bucket.
RECURSIVE bootstrap_loop_hoisted(_, _, _, _, _, _)
bootstrap_loop_hoisted(i, nb, n_estimators, per, rs, gens) ==
    IF i >= nb THEN [buckets |-> <<>>, gens |-> gens]
    ELSE LET g    == check_random_state(rs, gens)
             ind  == sample_without_replacement(n_estimators, per,
                         IF rs.kind = "int" THEN (g.state + i) % GenMod
                         ELSE g.state)
             rest == bootstrap_loop_hoisted(i + 1, nb, n_estimators, per, rs,
                                            g.after)
         IN  [buckets |-> <<ind>> \o rest.buckets, gens |-> rest.gens]

\* the loop of the static, bootstrap branch: one draw per bucket
RECURSIVE bootstrap_loop(_, _, _, _, _, _)
bootstrap_loop(i, nb, n_estimators, per, rs, gens) ==
    IF i >= nb THEN [buckets |-> <<>>, gens |-> gens]
    ELSE LET g    == check_random_state(rs, gens)
             ind  == sample_without_replacement(n_estimators, per, g.state)
             rest == bootstrap_loop(i + 1, nb, n_estimators, per, rs, g.after)
         IN  [buckets |-> <<ind>> \o rest.buckets, gens |-> rest.gens]

\* the loop of the dynamic branch. entropy[i + 1] is the state of the
\* generator RandomState(seed=None) builds from the operating system in
\* iteration i; an int seed builds the same generator in every iteration.
RECURSIVE dynamic_loop(_, _, _, _, _, _)
dynamic_loop(i, nb, n_estimators, rs, entropy, gens) ==
    IF i >= nb THEN [buckets |-> <<>>, gens |-> gens]
    ELSE LET sizegen == IF rs.kind = "int" THEN SeedState(rs.seed)
                        ELSE entropy[i + 1]
             max_estimator_per_bucket ==
                 randint(sizegen, 2, n_estimators \div 2)
             g    == check_random_state(rs, gens)
             ind  == sample_without_replacement(n_estimators,
                         max_estimator_per_bucket, g.state)
             rest == dynamic_loop(i + 1, nb, n_estimators, rs, entropy,
                                  g.after)
         IN  [buckets |-> <<ind>> \o rest.buckets, gens |-> rest.gens]

Failed(err, gens) ==
    [error |-> err, buckets |-> <<>>, result |-> <<>>, gens |-> gens]

\* the bucket assignment: [error, buckets, gens]
build_buckets(sc, nb, meth, bootstrap, rs, entropy, gens) ==
    LET n_estimators == Len(sc[1])
        per == n_estimators \div nb
    IN  IF check_parameter(nb, 2, n_estimators)
        THEN [error |-> ParameterRangeError, buckets |-> <<>>, gens |-> gens]
        ELSE IF meth = "static"
        THEN IF has_remainder(n_estimators, nb)
             THEN [error |-> UnevenBucketError, buckets |-> <<>>, gens |-> gens]
             ELSE IF ~bootstrap
             THEN LET g == check_random_state(rs, gens)
                  IN  [error |-> NoError,
                       buckets |-> static_loop(0, 0, n_estimators, per,
                                               shuffle(n_estimators, g.state)),
                       gens |-> g.after]
             ELSE LET b == bootstrap_loop(0, nb, n_estimators, per, rs, gens)
                  IN  [error |-> NoError, buckets |-> b.buckets, gens |-> b.gens]
        ELSE IF meth = "dynamic"
        THEN IF rs.kind = "RandomState"
             THEN [error |-> SeedTypeError, buckets |-> <<>>, gens |-> gens]
             ELSE IF 2 >= n_estimators \div 2
             THEN [error |-> RandintRangeError, buckets |-> <<>>, gens |-> gens]
             ELSE LET b == dynamic_loop(0, nb, n_estimators, rs, entropy, gens)
                  IN  [error |-> NoError, buckets |-> b.buckets, gens |-> b.gens]
        ELSE [error |-> UnsupportedStrategyError, buckets |-> <<>>, gens |-> gens]

\* Variant: the sum in place of the mean.
mean_of_buckets_sum(bucket_scores) == Frac(SumSeq(bucket_scores), 1)

\* np.mean(scores_buckets, axis=1) of one row
mean_of_buckets(bucket_scores) ==
    Frac(SumSeq(bucket_scores), Len(bucket_scores))

\* one row of the combined scores. scores_buckets starts as zeros, one column
\* per bucket, and the loops fill the columns of the buckets they build.
combine_row(mode, row, nb, buckets) ==
    IF mode = "AOM"
    THEN mean_of_buckets(
             [k \in 1 .. nb |-> IF k <= Len(buckets)
                                THEN MaxSeq(Columns(row, buckets[k])) ELSE 0])
    ELSE MaxFrac(
             [k \in 1 .. nb |-> IF k <= Len(buckets)
                                THEN Frac(SumSeq(Columns(row, buckets[k])),
                                          Len(buckets[k]))
                                ELSE Frac(0, 1)])

aom_moa_helper(mode, sc, nb, meth, bootstrap, rs, entropy, gens) ==
    LET b == build_buckets(sc, nb, meth, bootstrap, rs, entropy, gens)
    IN  IF b.error # NoError THEN Failed(b.error, b.gens)
        ELSE [error |-> NoError, buckets |-> b.buckets,
              result |-> [i \in 1 .. Len(sc) |->
                             combine_row(mode, sc[i], nb, b.buckets)],
              gens |-> b.gens]

\* what RandomState(seed=None) can draw as bucket sizes in one dynamic call:
\* one generator state per bucket, as many states as randint has outcomes
EntropyChoices(sc, nb, meth, rs) ==
    LET hi == Len(sc[1]) \div 2
    IN  IF meth = "dynamic" /\ rs.kind = "None" /\ hi > 2 /\ nb >= 1
        THEN [1 .. nb -> 0 .. (hi - 3)]
        ELSE {<<>>}

----------------------------------------------------------------------------
(* The calls *)

Idle == [op |-> "none", error |-> NoError, buckets |-> <<>>, result |-> <<>>]

\* aom and moa hand their arguments to the helper with their mode
aom(sc, nb, meth, bootstrap, rs, entropy, gens) ==
    aom_moa_helper("AOM", sc, nb, meth, bootstrap, rs, entropy, gens)

moa(sc, nb, meth, bootstrap, rs, entropy, gens) ==
    aom_moa_helper("MOA", sc, nb, meth, bootstrap, rs, entropy, gens)

Generators == [np |-> np_random, inst |-> rs_instance]

\* the state a call of aom / moa with outcome r leaves behind
Completed(mode, r) ==
    /\ last' = [op |-> mode, error |-> r.error,
                buckets |-> r.buckets, result |-> r.result]
    /\ np_random' = r.gens.np
    /\ rs_instance' = r.gens.inst
    /\ prev' = last
    /\ UNCHANGED <<scores, weights, n_buckets, method, bootstrap_estimators,
                   random_state>>

\* The model follows a call and one more call with the same arguments.
Aom ==
    /\ prev.op = "none"
    /\ \E entropy \in EntropyChoices(scores, n_buckets, method, random_state) :
         \E r \in {aom(scores, n_buckets, method, bootstrap_estimators,
                       random_state, entropy, Generators)} :
            Completed("AOM", r)

Moa ==
    /\ prev.op = "none"
    /\ \E entropy \in EntropyChoices(scores, n_buckets, method, random_state) :
         \E r \in {moa(scores, n_buckets, method, bootstrap_estimators,
                       random_state, entropy, Generators)} :
            Completed("MOA", r)

NoWeights == [given |-> FALSE, row |-> <<>>]
WeightArray(w) == [given |-> TRUE, row |-> w]

Rows(n, vals) == [1 .. n -> vals]

InitBucket ==
    /\ \E n \in 2 .. MaxEst :
         /\ scores \in {<<row>> : row \in Rows(n, ScoreVals)}
         /\ n_buckets \in 1 .. (n + 1)
    /\ weights = NoWeights
    /\ method \in {"static", "dynamic", "adaptive"}
    /\ bootstrap_estimators \in BOOLEAN
    /\ random_state \in {None, Instance} \cup {IntSeed(s) : s \in Seeds}
    /\ np_random \in (IF random_state.kind = "None" THEN GenStates ELSE {0})
    /\ rs_instance \in (IF random_state.kind = "RandomState" THEN GenStates ELSE {0})
    /\ last = Idle
    /\ prev = Idle

NextBucket == Aom \/ Moa

SpecBucket == InitBucket /\ [][NextBucket]_vars

----------------------------------------------------------------------------
(* Properties of aom / moa *)

n_estimators == Len(scores[1])
n_samples == Len(scores)
BucketCalled == last.op \in {"AOM", "MOA"}
InRange == 2 <= n_buckets /\ n_buckets <= n_estimators
Divides == n_estimators % n_buckets = 0
Returned == last.error = NoError
NothingBuilt == last.buckets = <<>> /\ last.result = <<>>

\* how often column index j occurs in the buckets of the latest call
Occurrences(j) ==
    Cardinality({kp \in (1 .. Len(last.buckets)) \X (1 .. n_estimators) :
                   /\ kp[2] <= Len(last.buckets[kp[1]])
                   /\ last.buckets[kp[1]][kp[2]] = j})

\* a bucket holds s distinct column indices of the estimator set
DistinctColumns(bucket, s) ==
    /\ Len(bucket) = s
    /\ Range(bucket) \subseteq 0 .. (n_estimators - 1)
    /\ Cardinality(Range(bucket)) = s

\* C1: static, no bootstrap, n_buckets in range and dividing n_estimators:
\* the buckets are a set partition of the column indices 0 .. n_estimators-1,
\* n_buckets buckets of n_estimators / n_buckets members each, every index in
\* exactly one bucket exactly once.
C1_StaticPartition ==
    (BucketCalled /\ method = "static" /\ ~bootstrap_estimators
        /\ InRange /\ Divides)
    => /\ Returned
       /\ Len(last.buckets) = n_buckets
       /\ \A k \in 1 .. Len(last.buckets) :
            Len(last.buckets[k]) = n_estimators \div n_buckets
       /\ \A j \in 0 .. (n_estimators - 1) : Occurrences(j) = 1

C1_Witness ==
    /\ BucketCalled /\ method = "static" /\ ~bootstrap_estimators
    /\ n_estimators = 6 /\ n_buckets = 3
    /\ Returned
    /\ last.buckets[1] # <<0, 1>>

C3_Reproducible ==
    (random_state.kind = "int" /\ BucketCalled /\ prev.op = last.op)
    => /\ last.error = prev.error
       /\ last.buckets = prev.buckets
       /\ last.result = prev.result

C3_Witness ==
    /\ random_state.kind = "int" /\ prev.op = "MOA" /\ last.op = "MOA"
    /\ method = "static" /\ bootstrap_estimators
    /\ Returned /\ n_buckets = 2 /\ n_estimators = 4

\* C4 as stated: static, no bootstrap: the uneven-bucket error whenever
\* n_estimators mod n_buckets # 0, and never when the remainder is 0 and
\* n_buckets is in range.
C4_Original ==
    (BucketCalled /\ method = "static" /\ ~bootstrap_estimators)
    => /\ ~Divides => (last.error = UnevenBucketError /\ NothingBuilt)
       /\ (Divides /\ InRange) => last.error # UnevenBucketError

\* C4 amended: static, no bootstrap, n_buckets in range: the uneven-bucket
\* error, with no bucket and no result, exactly when n_estimators mod
\* n_buckets # 0.
C4_UnevenInRange ==
    (BucketCalled /\ method = "static" /\ ~bootstrap_estimators /\ InRange)
    => /\ ~Divides => (last.error = UnevenBucketError /\ NothingBuilt)
       /\ Divides => last.error # UnevenBucketError

C4_Witness ==
    /\ BucketCalled /\ method = "static" /\ ~bootstrap_estimators
    /\ n_estimators = 4 /\ n_buckets = 3
    /\ last.error = UnevenBucketError /\ NothingBuilt

\* C5: n_buckets is accepted exactly when 2 <= n_buckets <= n_estimators;
\* outside it the call ends with the parameter-range error and builds
\* nothing, whatever method and bootstrap_estimators are.
C5_RangeCheck ==
    BucketCalled
    => /\ (last.error = ParameterRangeError) <=> ~InRange
       /\ ~InRange => NothingBuilt

C5_Witness ==
    /\ BucketCalled /\ method = "adaptive" /\ bootstrap_estimators
    /\ n_estimators = 4 /\ n_buckets = 5
    /\ last.error = ParameterRangeError /\ NothingBuilt

C9_Original ==
    (BucketCalled /\ method = "dynamic" /\ n_estimators >= 2 /\ InRange)
    => /\ Returned
       /\ Len(last.buckets) = n_buckets
       /\ \A k \in 1 .. Len(last.buckets) :
            \E s \in 2 .. ((n_estimators \div 2) - 1) :
               DistinctColumns(last.buckets[k], s)
       /\ Len(last.result) = n_samples

----------------------------------------------------------------------------
(* average, maximization, median, majority_vote *)

\* Variant: only a longer weight array is refused.
shape_differs_longer(w, n) == Len(w) > n

\* estimator_weights.shape != (1, scores.shape[1]), for a (1, k) array
shape_differs(w, n) == Len(w) # n

\* numpy.testing.assert_equal(scores.shape[1], weights.shape[1]): TRUE when
\* it raises
assert_equal_fails(a, b) == a # b

\* the entries of a row in ascending order (np.sort, np.unique)
RECURSIVE Sorted(_)
Sorted(s) ==
    IF s = <<>> THEN <<>>
    ELSE LET m == MinSeq(s)
             p == CHOOSE k \in 1 .. Len(s) : s[k] = m
         IN  <<m>> \o Sorted(RemoveAt(s, p))

RECURSIVE Unique(_)
Unique(sorted) ==
    IF Len(sorted) <= 1 THEN sorted
    ELSE IF sorted[1] = sorted[2] THEN Unique(Tail(sorted))
    ELSE <<sorted[1]>> \o Unique(Tail(sorted))

\* the summed weight of the voters of one label
RECURSIVE VoteWeight(_, _, _)
VoteWeight(a, w, score) ==
    IF a = <<>> THEN 0
    ELSE (IF Head(a) = score THEN Head(w) ELSE 0)
         + VoteWeight(Tail(a), Tail(w), score)

\* the loop of sklearn weighted_mode over the sorted unique labels:
\* oldmostfreq and oldcounts start as zeros; a label replaces the current one
\* when its count is strictly greater
RECURSIVE mode_loop(_, _, _, _, _)
mode_loop(labels, a, w, oldmostfreq, oldcounts) ==
    IF labels = <<>> THEN oldmostfreq
    ELSE LET counts == VoteWeight(a, w, Head(labels))
         IN  mode_loop(Tail(labels), a, w,
                 IF counts > oldcounts THEN Head(labels) ELSE oldmostfreq,
                 IF counts > oldcounts THEN counts ELSE oldcounts)

weighted_mode(a, w) == mode_loop(Unique(Sorted(a)), a, w, 0, 0)

Outcome(name, err, res) ==
    [op |-> name, error |-> err, buckets |-> <<>>, result |-> res]

\* np.multiply(scores, estimator_weights) on one row, with numpy's
\* broadcasting of an (m, n) array against a (1, k) array
Broadcastable(n, k) == k = n \/ k = 1 \/ n = 1

multiply_row(row, w) ==
    LET n == Len(row)
        k == Len(w)
    IN  [j \in 1 .. (IF n >= k THEN n ELSE k) |->
            row[IF n = 1 THEN 1 ELSE j] * w[IF k = 1 THEN 1 ELSE j]]

\* a weighted mean whose weights sum to 0 is numpy's nan or inf: den = 0
average(sc, w) ==
    LET n == Len(sc[1])
    IN  IF w.given
        THEN IF shape_differs(w.row, n)
             THEN Outcome("average", ShapeMismatchError, <<>>)
             ELSE IF ~Broadcastable(n, Len(w.row))
             THEN Outcome("average", BroadcastError, <<>>)
             ELSE Outcome("average", NoError,
                      [i \in 1 .. Len(sc) |->
                          Frac(SumSeq(multiply_row(sc[i], w.row)),
                               SumSeq(w.row))])
        ELSE Outcome("average", NoError,
                 [i \in 1 .. Len(sc) |-> Frac(SumSeq(sc[i]), n)])

maximization(sc) ==
    Outcome("maximization", NoError,
            [i \in 1 .. Len(sc) |-> Frac(MaxSeq(sc[i]), 1)])

median_row(row) ==
    LET sorted == Sorted(row)
        n == Len(row)
    IN  IF n % 2 = 1 THEN Frac(sorted[(n + 1) \div 2], 1)
        ELSE Frac(sorted[n \div 2] + sorted[(n \div 2) + 1], 2)

median(sc) ==
    Outcome("median", NoError, [i \in 1 .. Len(sc) |-> median_row(sc[i])])

majority_vote(sc, w) ==
    LET n == Len(sc[1])
    IN  IF w.given /\ assert_equal_fails(n, Len(w.row))
        THEN Outcome("majority_vote", ShapeMismatchError, <<>>)
        ELSE LET ws == IF w.given THEN w.row ELSE [j \in 1 .. n |-> 1]
             IN  Outcome("majority_vote", NoError,
                     [i \in 1 .. Len(sc) |->
                         Frac(weighted_mode(sc[i], ws), 1)])

BucketState ==
    <<n_buckets, method, bootstrap_estimators, random_state, np_random,
      rs_instance, prev>>

Average ==
    /\ last' = average(scores, weights)
    /\ UNCHANGED <<scores, weights, BucketState>>

Maximization ==
    /\ last' = maximization(scores)
    /\ UNCHANGED <<scores, weights, BucketState>>

Median ==
    /\ last' = median(scores)
    /\ UNCHANGED <<scores, weights, BucketState>>

MajorityVote ==
    /\ last' = majority_vote(scores, weights)
    /\ UNCHANGED <<scores, weights, BucketState>>

InitSimple ==
    /\ \E m \in SampleCounts, n \in 1 .. MaxVoters :
         /\ scores \in [1 .. m -> Rows(n, Labels)]
         /\ weights \in {NoWeights}
              \cup UNION {{WeightArray(w) : w \in Rows(k, WeightVals)} :
                             k \in 1 .. (n + 1)}
    /\ n_buckets = 2
    /\ method = "static"
    /\ bootstrap_estimators = FALSE
    /\ random_state = None
    /\ np_random = 0
    /\ rs_instance = 0
    /\ last = Idle
    /\ prev = Idle

NextSimple == Average \/ Maximization \/ Median \/ MajorityVote

SpecSimple == InitSimple /\ [][NextSimple]_vars

----------------------------------------------------------------------------
(* Properties of the weighted variants *)

LabelsOf(row) == Range(row)

\* the weights the vote counts with: the given ones, or ones
VoteWeights == IF weights.given THEN weights.row ELSE [j \in 1 .. n_estimators |-> 1]

\* the smallest of the labels of a row whose summed weight is the largest
WeightedModeOf(row, w) ==
    LET best(l) == \A o \in LabelsOf(row) :
                      VoteWeight(row, w, o) <= VoteWeight(row, w, l)
    IN  CHOOSE l \in LabelsOf(row) :
           best(l) /\ \A o \in LabelsOf(row) : best(o) => l <= o

\* C6 as stated: majority_vote returns for every row the label with the
\* largest summed weight among the labels of the row, the smallest such label
\* on a tie.
C6_Original ==
    (last.op = "majority_vote" /\ Returned)
    => \A i \in 1 .. n_samples :
          last.result[i] = Frac(WeightedModeOf(scores[i], VoteWeights), 1)

====
